---- MODULE Spec2Model ----
(***************************************************************************)
(* Game flow state machine of the millionaire game server:                 *)
(*   src/server/game/GameServer.js       (GameServer, Choices)             *)
(*   src/server/question/HotSeatQuestion.js                                *)
(* ServerState, StepDialog, Player, PlayerMap, Question and                *)
(* FastestFingerQuestion are used by these files but are not part of the   *)
(* sources; the operators that stand for them follow spec.md and are       *)
(* marked as such.                                                         *)
(***************************************************************************)
EXTENDS Integers, Sequences, FiniteSets, TLC

VARIABLES
  serverState,         \* GameServer.serverState (NoState when undefined)
  playerMap,           \* GameServer.playerMap: contestant -> Player
  currentForcedTimer,  \* GameServer.currentForcedTimer: a timeout handle, 0 when undefined
  currentSocketEvent,  \* GameServer.currentSocketEvent
  timeouts,            \* pending setTimeout callbacks of the forced timers: handle -> target
  listeners,           \* socket -> the socket events a listener is registered for
  crashed,             \* a handler or timer callback threw (uncaught TypeError)
  gamesStarted,        \* number of startGame calls so far
  timeUpCount,         \* entries of fastestFingerTimeUp in the current round (history)
  lateCallback,        \* a timer callback ran while serverState was undefined (history)
  unsolicited,         \* messages received so far that no client was offered to send
  ret                  \* last call of a pure function and its result (function specification)

vars == <<serverState, playerMap, currentForcedTimer, currentSocketEvent, timeouts,
          listeners, crashed, gamesStarted, timeUpCount, lateCallback, unsolicited, ret>>

----------------------------------------------------------------------------
(* Bounds of the model *)

\* Forced timeouts that may be pending at once.
MaxTimers == 2
\* startGame calls in one behaviour.
MaxGames == 1
\* Cap of hotSeatQuestionIndex under arbitrary message delivery.
MaxIndex == 0
\* Messages a behaviour may deliver that no client was offered to send (a repeated
\* delivery, a message of another phase).
MaxUnsolicited == 1
\* Contestants in the game (players other than the show host).
NumContestants == 2
\* The most times one reveal handler is invoked on one question.
MaxInvocations == 5
\* Cap of hotSeatQuestionIndex when the game is played through its StepDialogs.
MaxQuestionIndex == 15

----------------------------------------------------------------------------
(* Choices: GameServer.js 553-573 *)

A == 0
B == 1
C == 2
D == 3
MAX_CHOICES == 4
VALID_CHOICES == {A, B, C, D}

\* JavaScript undefined, where a choice, an index or a number is expected.
Undefined == 0 - 1
\* A choice outside the four slots, as a client may send it.
InvalidChoice == MAX_CHOICES

isValidChoice(choice) == choice \in VALID_CHOICES

----------------------------------------------------------------------------
(* Socket events and the methods of GameServer *)

SOCKET_EVENTS == <<
  "showHostShowFastestFingerRules",
  "showHostCueFastestFingerQuestion",
  "showHostShowFastestFingerQuestionText",
  "showHostCueFastestFingerThreeStrikes",
  "showHostRevealFastestFingerQuestionChoices",
  "contestantFastestFingerChoose",
  "fastestFingerTimeUp",
  "showHostCueFastestFingerAnswerRevealAudio",
  "showHostRevealFastestFingerAnswer",
  "showHostRevealFastestFingerResults",
  "showHostAcceptHotSeatPlayer",
  "showHostCueHotSeatRules",
  "showHostHighlightLifeline",
  "showHostCueHotSeatQuestion",
  "showHostShowHotSeatQuestionText",
  "showHostRevealHotSeatChoice",
  "showHostAskTheAudience",
  "showHostDoFiftyFifty",
  "showHostPhoneAFriend",
  "showHostRevealHotSeatQuestionVictory",
  "showHostRevealHotSeatQuestionLoss",
  "showHostShowScores",
  "contestantChoose",
  "contestantSetConfidence",
  "hotSeatChoose",
  "hotSeatFinalAnswer",
  "hotSeatUseLifeline",
  "hotSeatConfirmLifeline",
  "hotSeatPickPhoneAFriend" >>

SocketEventSet == {SOCKET_EVENTS[i] : i \in 1..Len(SOCKET_EVENTS)}

\* The socket-listener methods class GameServer defines (lines 178-533).
GameServerMethods == {
  "showHostShowFastestFingerRules",
  "showHostCueFastestFingerQuestion",
  "showHostShowFastestFingerQuestionText",
  "showHostCueFastestFingerThreeStrikes",
  "showHostRevealFastestFingerQuestionChoices",
  "contestantFastestFingerChoose",
  "fastestFingerTimeUp",
  "showHostCueFastestFingerAnswerRevealAudio",
  "showHostRevealFastestFingerAnswer",
  "showHostRevealFastestFingerResults",
  "showHostAcceptHotSeatPlayer",
  "showHostCueHotSeatRules",
  "showHostCueHotSeatQuestion",
  "showHostShowHotSeatQuestionText",
  "showHostRevealHotSeatChoice",
  "hotSeatChoose",
  "contestantChoose",
  "hotSeatFinalAnswer",
  "showHostRevealHotSeatQuestionVictory" }

NoEvent == "undefined"

----------------------------------------------------------------------------
(* HotSeatQuestion.js *)

FINAL_ANSWER_WAIT_TIMES ==
  <<1000, 1000, 1000, 1000, 1500, 3000, 3000, 3000, 3000, 4000, 5000, 5000, 5000, 5000, 7500>>

CORRECT_WAIT_TIMES ==
  <<1000, 1000, 1000, 1000, 8000, 5000, 5000, 5000, 5000, 8000, 7000, 7000, 7000, 7000, 24000>>

\* table[index] of JavaScript: Undefined outside the table.
At(table, index) == IF index \in 0..(Len(table) - 1) THEN table[index + 1] ELSE Undefined

Max(a, b) == IF a >= b THEN a ELSE b

getSafeHavenIndex_Mutant(failedIndex) ==
  LET oneIndexed == Max(0, failedIndex) + 1
  IN  oneIndexed - (oneIndexed % 5)

getSafeHavenIndex(failedIndex) ==
  LET oneIndexed == Max(0, failedIndex) + 1
  IN  oneIndexed - (oneIndexed % 5) - 1

\* The orders of the four slots.
Permutations4 ==
  {p \in [1..MAX_CHOICES -> VALID_CHOICES] : \A i, j \in 1..MAX_CHOICES : p[i] = p[j] => i = j}

NoQuestion == [defined |-> FALSE]

\* new HotSeatQuestion(hsqJson, questionIndex); the fields of the Question base class
\* (orderedChoices, shuffledChoices, revealedChoices, startTime) follow spec.md section 3.
HotSeatQuestion(orderedChoices, shuffledChoices, questionIndex) ==
  [ defined |-> TRUE,
    orderedChoices |-> orderedChoices,
    shuffledChoices |-> shuffledChoices,
    revealedChoices |-> [i \in 1..MAX_CHOICES |-> FALSE],
    startTime |-> FALSE,
    correctChoiceRevealedForShowHost |-> FALSE,
    correctChoiceRevealedForAll |-> FALSE,
    questionIndex |-> questionIndex ]

answerIsCorrect_Mutant(q, answer) ==
  IF answer \in 0..(Len(q.shuffledChoices) - 1)
  THEN q.shuffledChoices[answer + 1] = q.orderedChoices[MAX_CHOICES]
  ELSE FALSE

\* shuffledChoices[answer] is undefined for an answer that is no index of the array.
answerIsCorrect(q, answer) ==
  IF answer \in 0..(Len(q.shuffledChoices) - 1)
  THEN q.shuffledChoices[answer + 1] = q.orderedChoices[1]
  ELSE FALSE

getShuffledChoice(q, orderedIndex) ==
  LET hits == {i \in 0..(Len(q.shuffledChoices) - 1) :
                 q.shuffledChoices[i + 1] = q.orderedChoices[orderedIndex + 1]}
  IN  IF hits = {} THEN Undefined
      ELSE CHOOSE i \in hits : \A j \in hits : i <= j

getCorrectChoice(q) == getShuffledChoice(q, 0)


revealCorrectChoiceForShowHost_Mutant(q) == [q EXCEPT !.correctChoiceRevealedForAll = TRUE]

revealCorrectChoiceForShowHost(q) == [q EXCEPT !.correctChoiceRevealedForShowHost = TRUE]

revealCorrectChoiceForAll(q) == [q EXCEPT !.correctChoiceRevealedForAll = TRUE]

\* Question.toCompressed(madeChoices) of the base class.
QuestionToCompressed(q, madeChoices) ==
  [ revealedChoices |-> q.revealedChoices, madeChoices |-> madeChoices ]

toCompressed_Mutant(q, madeChoice, showCorrectChoice) ==
  LET compressed == QuestionToCompressed(q, <<madeChoice>>)
      shown == IF showCorrectChoice
               THEN ("correctChoice" :> getCorrectChoice(q)) @@ compressed
               ELSE compressed
  IN  ("choiceLocked" :> (madeChoice > 0)) @@ shown

toCompressed(q, madeChoice, showCorrectChoice) ==
  LET compressed == QuestionToCompressed(q, <<madeChoice>>)
      shown == IF showCorrectChoice
               THEN ("correctChoice" :> getCorrectChoice(q)) @@ compressed
               ELSE compressed
  IN  ("choiceLocked" :> (madeChoice # Undefined)) @@ shown

----------------------------------------------------------------------------
(* Players and sockets *)

Contestants == 1..NumContestants
NoPlayer == 0

\* The show host's connection; a contestant's socket is named by the contestant.
HostSocket == 0
Sockets == Contestants \cup {HostSocket}

\* new Player: no answers, no score.
NewPlayer == [ fastestFingerChoices |-> <<>>, fastestFingerScore |-> 0,
               hotSeatChoice |-> Undefined ]

SeqRange(s) == {s[i] : i \in 1..Len(s)}

\* Player.chooseFastestFinger(choice): the next slot of the contestant's ordering; an
\* invalid or repeated slot, or a fifth one, is not stored (spec.md section 3).
chooseFastestFinger(player, choice) ==
  IF /\ isValidChoice(choice)
     /\ Len(player.fastestFingerChoices) < MAX_CHOICES
     /\ choice \notin SeqRange(player.fastestFingerChoices)
  THEN [player EXCEPT !.fastestFingerChoices = Append(@, choice)]
  ELSE player

\* Player.chooseHotSeat(choice): stores a valid choice unless one is locked already.
chooseHotSeat(player, choice) ==
  IF isValidChoice(choice) /\ player.hotSeatChoice = Undefined
  THEN [player EXCEPT !.hotSeatChoice = choice]
  ELSE player

\* Player.clearAllAnswers()
clearAllAnswers(player) ==
  [player EXCEPT !.fastestFingerChoices = <<>>, !.hotSeatChoice = Undefined]

----------------------------------------------------------------------------
(* StepDialog *)

NoDialog == [defined |-> FALSE]

\* new StepDialog(actions, timeoutFunc, timeoutMs, header); timeoutFunc is named by the
\* handler it invokes.
StepDialog(actions, timeoutFunc, timeoutMs, header) ==
  [ defined |-> TRUE, actions |-> actions, timeoutFunc |-> timeoutFunc,
    timeoutMs |-> timeoutMs, header |-> header ]

HasTimeout(dialog) == dialog.defined /\ dialog.timeoutFunc # NoEvent

----------------------------------------------------------------------------
(* FastestFingerQuestion *)

\* new FastestFingerQuestion(json): Question plus the number of revealed answers.
FastestFingerQuestion(orderedChoices, shuffledChoices) ==
  [ defined |-> TRUE,
    orderedChoices |-> orderedChoices,
    shuffledChoices |-> shuffledChoices,
    revealedChoices |-> [i \in 1..MAX_CHOICES |-> FALSE],
    startTime |-> FALSE,
    revealedAnswers |-> 0 ]

revealAllChoices(q) == [q EXCEPT !.revealedChoices = [i \in 1..MAX_CHOICES |-> TRUE]]

markStartTime(q) == [q EXCEPT !.startTime = TRUE]

revealAnswer(q) ==
  [q EXCEPT !.revealedAnswers = IF @ < MAX_CHOICES THEN @ + 1 ELSE @]

revealedAllAnswers(q) == q.revealedAnswers = MAX_CHOICES

\* Positions of the submitted order that match the true order, doubled when all do.
getAnswerScore(q, choices) ==
  LET right == Cardinality({i \in 1..Len(choices) :
                  /\ i <= MAX_CHOICES
                  /\ q.shuffledChoices[choices[i] + 1] = q.orderedChoices[i]})
  IN  IF right = MAX_CHOICES THEN 2 * MAX_CHOICES ELSE right

\* Question.revealChoice(): reveals the first presented slot not yet revealed.
revealChoice(q) ==
  LET hidden == {i \in 1..MAX_CHOICES : ~q.revealedChoices[i]}
  IN  IF hidden = {} THEN q
      ELSE [q EXCEPT !.revealedChoices[CHOOSE i \in hidden : \A j \in hidden : i <= j] = TRUE]

allChoicesRevealed(q) == \A i \in 1..MAX_CHOICES : q.revealedChoices[i]

----------------------------------------------------------------------------
(* ServerState *)

NoState == [defined |-> FALSE]
NoBanner == [defined |-> FALSE]

\* new ServerState(playerMap). Nothing in GameServer assigns hotSeatPlayer, so the value
\* ServerState gives it is an input of startGame: none, or one of the contestants.
ServerState(hotSeatPlayer) ==
  [ defined |-> TRUE,
    showHost |-> FALSE,
    showHostStepDialog |-> NoDialog,
    hotSeatStepDialog |-> NoDialog,
    showHostTimeout |-> FALSE,
    hotSeatTimeout |-> FALSE,
    fastestFingerQuestion |-> NoQuestion,
    hotSeatQuestion |-> NoQuestion,
    hotSeatQuestionIndex |-> Undefined,
    hotSeatPlayer |-> hotSeatPlayer,
    celebrationBanner |-> NoBanner ]

playerShowHostPresent(g) == g.serverState.showHost

\* ServerState.setShowHostStepDialog(dialog): the dialog it replaces is superseded and
\* its pending timeout invalidated; the timeout of the new one is armed.
setShowHostStepDialog(g, dialog) ==
  [g EXCEPT !.serverState.showHostStepDialog = dialog,
            !.serverState.showHostTimeout = HasTimeout(dialog)]

setHotSeatStepDialog(g, dialog) ==
  [g EXCEPT !.serverState.hotSeatStepDialog = dialog,
            !.serverState.hotSeatTimeout = HasTimeout(dialog)]

setCelebrationBanner(g, banner) == [g EXCEPT !.serverState.celebrationBanner = banner]

\* ServerState.clearTimers(): cancels the timeouts of the live StepDialogs.
clearTimers(g) ==
  [g EXCEPT !.serverState.showHostTimeout = FALSE, !.serverState.hotSeatTimeout = FALSE]

\* ServerState.startNewRound(): the round's questions, index and answers start afresh.
startNewRound(g) ==
  [g EXCEPT !.serverState.fastestFingerQuestion = NoQuestion,
            !.serverState.hotSeatQuestion = NoQuestion,
            !.serverState.hotSeatQuestionIndex = Undefined,
            !.serverState.celebrationBanner = NoBanner,
            !.playerMap = [p \in Contestants |-> clearAllAnswers(g.playerMap[p])]]

resetFastestFinger(g) == [g EXCEPT !.serverState.fastestFingerQuestion = NoQuestion]

resetHotSeatQuestion(g) == [g EXCEPT !.serverState.hotSeatQuestion = NoQuestion]

\* Every contestant has locked in an order of all four choices.
allPlayersDoneWithFastestFinger(g) ==
  \A p \in Contestants : Len(g.playerMap[p].fastestFingerChoices) = MAX_CHOICES

----------------------------------------------------------------------------
(* Timeouts of the JavaScript runtime used for the forced timers *)

NoTimeouts == [h \in 1..MaxTimers |-> NoEvent]

FreeHandles(g) == {h \in 1..MaxTimers : g.timeouts[h] = NoEvent}

\* this.currentForcedTimer = setTimeout(callback, ms)
armForcedTimer(g, target) ==
  IF FreeHandles(g) = {} THEN [g EXCEPT !.overflow = TRUE]
  ELSE LET h == CHOOSE x \in FreeHandles(g) : \A y \in FreeHandles(g) : x <= y
       IN  [g EXCEPT !.timeouts[h] = target, !.currentForcedTimer = h]

\* clearTimeout(handle): no effect for undefined or for a timeout that already ran.
clearTimeout(g, handle) ==
  IF handle \in 1..MaxTimers THEN [g EXCEPT !.timeouts[handle] = NoEvent] ELSE g

\* An uncaught TypeError: the handler stops where it is.
Throw(g) == [g EXCEPT !.crashed = TRUE]

----------------------------------------------------------------------------
(* GameServer: private methods *)

\* The state the handlers work on, as one record.
G == [ serverState |-> serverState, playerMap |-> playerMap,
       currentForcedTimer |-> currentForcedTimer,
       currentSocketEvent |-> currentSocketEvent,
       timeouts |-> timeouts, crashed |-> crashed,
       timeUpCount |-> timeUpCount, overflow |-> FALSE ]

Data(nextSocketEvent, hostButtonMessage, aiTimeout) ==
  [ nextSocketEvent |-> nextSocketEvent, hostButtonMessage |-> hostButtonMessage,
    aiTimeout |-> aiTimeout ]

getOneChoiceHostStepDialog_Mutant(g, data) ==
  IF playerShowHostPresent(g)
  THEN StepDialog(<<[socketEvent |-> data.nextSocketEvent, text |-> data.hostButtonMessage]>>,
                  data.nextSocketEvent, data.aiTimeout, NoEvent)
  ELSE StepDialog(<<>>, data.nextSocketEvent, data.aiTimeout, NoEvent)

getOneChoiceHostStepDialog(g, data) ==
  IF playerShowHostPresent(g)
  THEN StepDialog(<<[socketEvent |-> data.nextSocketEvent, text |-> data.hostButtonMessage]>>,
                  NoEvent, Undefined, NoEvent)
  ELSE StepDialog(<<>>, data.nextSocketEvent, data.aiTimeout, NoEvent)

getYesNoDialog(yesEvent, noEvent, header) ==
  StepDialog(<<[socketEvent |-> yesEvent, text |-> "YES"],
               [socketEvent |-> noEvent, text |-> "NO"]>>,
             NoEvent, Undefined, header)

\* setShowHostStepDialog(_getOneChoiceHostStepDialog(data)); _updateGame()
StepTo(g, data) == setShowHostStepDialog(g, getOneChoiceHostStepDialog(g, data))


Enter_Mutant(g, socketEvent) == g

\* The first statement of every phase handler; the next one reads this.serverState.
Enter(g, socketEvent) == [g EXCEPT !.currentSocketEvent = socketEvent]

\* ServerState.toCompressedClientState(socket, currentSocketEvent): what one client is
\* given of the game, with the phase it is to show.
toCompressedClientState(g, socket, socketEvent) ==
  [ currentSocketEvent |-> socketEvent,
    stepDialog |-> IF socket = HostSocket THEN g.serverState.showHostStepDialog
                   ELSE IF socket = g.serverState.hotSeatPlayer
                        THEN g.serverState.hotSeatStepDialog
                        ELSE NoDialog,
    celebrationBanner |-> g.serverState.celebrationBanner,
    hotSeatQuestionIndex |-> g.serverState.hotSeatQuestionIndex ]

\* socket.emit('updateGame', ...): the message a socket that joins again is sent.
updateGameForSocket(g, socket) ==
  [ socket |-> socket, message |-> "updateGame",
    clientState |-> toCompressedClientState(g, socket, g.currentSocketEvent) ]

----------------------------------------------------------------------------
(* GameServer: socket listeners *)

showHostShowFastestFingerRules(g) ==
  LET g1 == Enter(g, "showHostShowFastestFingerRules")
  IN  IF ~g1.serverState.defined THEN Throw(g1)
      ELSE StepTo(startNewRound(g1),
                  Data("showHostCueFastestFingerQuestion", "CUE_FASTEST_FINGER_MUSIC", 5000))

showHostCueFastestFingerQuestion(g) ==
  LET g1 == Enter(g, "showHostCueFastestFingerQuestion")
  IN  IF ~g1.serverState.defined THEN Throw(g1)
      ELSE StepTo(g1, Data("showHostShowFastestFingerQuestionText",
                           "SHOW_FASTEST_FINGER_QUESTION", 3000))

\* content: the question fastestFingerSession.getNewQuestion() draws from its bank.
showHostShowFastestFingerQuestionText(g, content) ==
  LET g1 == Enter(g, "showHostShowFastestFingerQuestionText")
  IN  IF ~g1.serverState.defined THEN Throw(g1)
      ELSE StepTo([g1 EXCEPT !.serverState.fastestFingerQuestion =
                           FastestFingerQuestion(content.orderedChoices,
                                                 content.shuffledChoices)],
                  Data("showHostCueFastestFingerThreeStrikes",
                       "REVEAL_FASTEST_FINGER_CHOICE", 8000))

showHostCueFastestFingerThreeStrikes(g) ==
  LET g1 == Enter(g, "showHostCueFastestFingerThreeStrikes")
  IN  IF ~g1.serverState.defined THEN Throw(g1)
      ELSE armForcedTimer(setShowHostStepDialog(g1, NoDialog),
                          "showHostRevealFastestFingerQuestionChoices")

showHostRevealFastestFingerQuestionChoices(g) ==
  LET g1 == Enter(g, "showHostRevealFastestFingerQuestionChoices")
  IN  IF ~g1.serverState.defined THEN Throw(g1)
      ELSE IF ~g1.serverState.fastestFingerQuestion.defined THEN Throw(g1)
      ELSE armForcedTimer(
             [g1 EXCEPT !.serverState.fastestFingerQuestion =
                           markStartTime(revealAllChoices(@)),
                        !.timeUpCount = 0],
             "fastestFingerTimeUp")

fastestFingerTimeUp(g) ==
  LET g1 == [Enter(g, "fastestFingerTimeUp") EXCEPT
               !.timeUpCount = IF @ < 2 THEN @ + 1 ELSE @]
      g2 == clearTimeout(g1, g1.currentForcedTimer)
  IN  IF ~g2.serverState.defined THEN Throw(g2)
      ELSE StepTo(g2, Data("showHostCueFastestFingerAnswerRevealAudio",
                           "CUE_FASTEST_FINGER_ANSWER_REVEAL_AUDIO", 2500))

\* socket: the contestant whose socket sent the message. updateGameForSocket reads
\* this.serverState before allPlayersDoneWithFastestFinger does.
contestantFastestFingerChoose(g, socket, choice) ==
  LET g1 == [g EXCEPT !.playerMap[socket] = chooseFastestFinger(@, choice)]
  IN  IF ~g1.serverState.defined THEN Throw(g1)
      ELSE IF allPlayersDoneWithFastestFinger(g1) THEN fastestFingerTimeUp(g1)
      ELSE g1

showHostCueFastestFingerAnswerRevealAudio(g) ==
  LET g1 == Enter(g, "showHostCueFastestFingerAnswerRevealAudio")
  IN  IF ~g1.serverState.defined THEN Throw(g1)
      ELSE StepTo(g1, Data("showHostRevealFastestFingerAnswer",
                           "REVEAL_FASTEST_FINGER_ANSWER", 2500))


showHostRevealFastestFingerAnswer_Mutant(g) ==
  LET g1 == Enter(g, "showHostRevealFastestFingerAnswer")
  IN  IF ~g1.serverState.defined THEN Throw(g1)
      ELSE IF ~g1.serverState.fastestFingerQuestion.defined THEN Throw(g1)
      ELSE LET g2 == [g1 EXCEPT !.serverState.fastestFingerQuestion = revealAnswer(@)]
           IN  IF revealedAllAnswers(g1.serverState.fastestFingerQuestion)
               THEN StepTo(g2, Data("showHostRevealFastestFingerResults",
                                    "REVEAL_FASTEST_FINGER_RESULTS", 2000))
               ELSE StepTo(g2, Data("showHostRevealFastestFingerAnswer",
                                    "REVEAL_FASTEST_FINGER_ANSWER", 2000))

showHostRevealFastestFingerAnswer(g) ==
  LET g1 == Enter(g, "showHostRevealFastestFingerAnswer")
  IN  IF ~g1.serverState.defined THEN Throw(g1)
      ELSE IF ~g1.serverState.fastestFingerQuestion.defined THEN Throw(g1)
      ELSE LET g2 == [g1 EXCEPT !.serverState.fastestFingerQuestion = revealAnswer(@)]
           IN  IF revealedAllAnswers(g2.serverState.fastestFingerQuestion)
               THEN StepTo(g2, Data("showHostRevealFastestFingerResults",
                                    "REVEAL_FASTEST_FINGER_RESULTS", 2000))
               ELSE StepTo(g2, Data("showHostRevealFastestFingerAnswer",
                                    "REVEAL_FASTEST_FINGER_ANSWER", 2000))

showHostRevealFastestFingerResults(g) ==
  LET g1 == Enter(g, "showHostRevealFastestFingerResults")
  IN  IF ~g1.serverState.defined THEN Throw(g1)
      ELSE IF ~g1.serverState.fastestFingerQuestion.defined THEN Throw(g1)
      ELSE StepTo(
             [g1 EXCEPT !.playerMap = [p \in Contestants |->
                 [g1.playerMap[p] EXCEPT !.fastestFingerScore =
                    getAnswerScore(g1.serverState.fastestFingerQuestion,
                                   g1.playerMap[p].fastestFingerChoices)]]],
             Data("showHostAcceptHotSeatPlayer", "ACCEPT_HOT_SEAT_PLAYER", 3000))

showHostAcceptHotSeatPlayer(g) ==
  LET g1 == Enter(g, "showHostAcceptHotSeatPlayer")
  IN  IF ~g1.serverState.defined THEN Throw(g1)
      ELSE IF g1.serverState.hotSeatPlayer = NoPlayer THEN Throw(g1)
      ELSE StepTo(setCelebrationBanner(g1,
                    [defined |-> TRUE, header |-> "FASTEST_FINGER_WINNER",
                     text |-> g1.serverState.hotSeatPlayer]),
                  Data("showHostCueHotSeatRules", "SHOW_HOT_SEAT_RULES", 10000))

showHostCueHotSeatRules(g) ==
  LET g1 == Enter(g, "showHostCueHotSeatRules")
  IN  IF ~g1.serverState.defined THEN Throw(g1)
      ELSE StepTo(setCelebrationBanner(resetFastestFinger(g1), NoBanner),
                  Data("showHostCueHotSeatQuestion", "CUE_HOT_SEAT_QUESTION", 5000))

showHostCueHotSeatQuestion(g) ==
  LET g1 == Enter(g, "showHostCueHotSeatQuestion")
  IN  IF ~g1.serverState.defined THEN Throw(g1)
      ELSE StepTo([setCelebrationBanner(g1, NoBanner) EXCEPT
                     !.serverState.hotSeatQuestionIndex = @ + 1],
                  Data("showHostShowHotSeatQuestionText", "SHOW_HOT_SEAT_QUESTION", 7000))

\* content: the question hotSeatSession.getNewQuestion(hotSeatQuestionIndex) draws from
\* its bank.
showHostShowHotSeatQuestionText(g, content) ==
  LET g1 == Enter(g, "showHostShowHotSeatQuestionText")
  IN  IF ~g1.serverState.defined THEN Throw(g1)
      ELSE StepTo([g1 EXCEPT !.serverState.hotSeatQuestion =
                           HotSeatQuestion(content.orderedChoices, content.shuffledChoices,
                                           g1.serverState.hotSeatQuestionIndex)],
                  Data("showHostRevealHotSeatChoice", "REVEAL_HOT_SEAT_CHOICE", 4000))


showHostRevealHotSeatChoice_Mutant(g) ==
  LET g1 == Enter(g, "showHostRevealHotSeatChoice")
  IN  IF ~g1.serverState.defined THEN Throw(g1)
      ELSE IF g1.serverState.hotSeatPlayer = NoPlayer THEN Throw(g1)
      ELSE LET g2 == [g1 EXCEPT !.playerMap[g1.serverState.hotSeatPlayer] =
                                    clearAllAnswers(@)]
           IN  IF ~g2.serverState.hotSeatQuestion.defined THEN Throw(g2)
               ELSE LET g3 == [g2 EXCEPT !.serverState.hotSeatQuestion = revealChoice(@)]
                    IN  IF ~allChoicesRevealed(g2.serverState.hotSeatQuestion)
                        THEN StepTo(g3, Data("showHostRevealHotSeatChoice",
                                             "REVEAL_HOT_SEAT_CHOICE", 1500))
                        ELSE setHotSeatStepDialog(
                               setShowHostStepDialog(
                                 [g3 EXCEPT !.serverState.hotSeatQuestion = markStartTime(@)],
                                 NoDialog),
                               NoDialog)

showHostRevealHotSeatChoice(g) ==
  LET g1 == Enter(g, "showHostRevealHotSeatChoice")
  IN  IF ~g1.serverState.defined THEN Throw(g1)
      ELSE IF g1.serverState.hotSeatPlayer = NoPlayer THEN Throw(g1)
      ELSE LET g2 == [g1 EXCEPT !.playerMap[g1.serverState.hotSeatPlayer] =
                                    clearAllAnswers(@)]
           IN  IF ~g2.serverState.hotSeatQuestion.defined THEN Throw(g2)
               ELSE LET g3 == [g2 EXCEPT !.serverState.hotSeatQuestion = revealChoice(@)]
                    IN  IF ~allChoicesRevealed(g3.serverState.hotSeatQuestion)
                        THEN StepTo(g3, Data("showHostRevealHotSeatChoice",
                                             "REVEAL_HOT_SEAT_CHOICE", 1500))
                        ELSE setHotSeatStepDialog(
                               setShowHostStepDialog(
                                 [g3 EXCEPT !.serverState.hotSeatQuestion = markStartTime(@)],
                                 NoDialog),
                               NoDialog)

hotSeatChoose(g, choice) ==
  LET g1 == Enter(g, "hotSeatChoose")
      dialog == getYesNoDialog("hotSeatFinalAnswer", "showHostRevealHotSeatChoice",
                               "HOT_SEAT_FINAL_ANSWER")
  IN  IF ~g1.serverState.defined THEN Throw(g1)
      ELSE IF g1.serverState.hotSeatPlayer = NoPlayer THEN Throw(g1)
      ELSE LET g2 == [g1 EXCEPT !.playerMap[g1.serverState.hotSeatPlayer] =
                                    chooseHotSeat(@, choice)]
           IN  IF playerShowHostPresent(g2)
               THEN setShowHostStepDialog(g2, dialog)
               ELSE setHotSeatStepDialog(g2, dialog)

contestantChoose(g, socket, choice) ==
  LET g1 == [g EXCEPT !.playerMap[socket] = chooseHotSeat(@, choice)]
  IN  IF ~g1.serverState.defined THEN Throw(g1) ELSE g1


hotSeatFinalAnswer_MutantRoute(g) ==
  LET g1 == Enter(g, "hotSeatFinalAnswer")
  IN  IF ~g1.serverState.defined THEN Throw(g1)
      ELSE IF ~g1.serverState.hotSeatQuestion.defined THEN Throw(g1)
      ELSE LET g2 == [g1 EXCEPT !.serverState.hotSeatQuestion =
                                    revealCorrectChoiceForShowHost(@)]
               wait == At(FINAL_ANSWER_WAIT_TIMES, g2.serverState.hotSeatQuestionIndex)
           IN  IF g2.serverState.hotSeatPlayer = NoPlayer THEN Throw(g2)
               ELSE IF g2.playerMap[g2.serverState.hotSeatPlayer].hotSeatChoice =
                         g2.serverState.hotSeatQuestion.orderedChoices[1]
               THEN StepTo(g2, Data("showHostRevealHotSeatQuestionVictory",
                                    "HOT_SEAT_VICTORY", wait))
               ELSE StepTo(g2, Data("showHostRevealHotSeatQuestionLoss",
                                    "HOT_SEAT_LOSS", wait))

hotSeatFinalAnswer_MutantWait(g) ==
  LET g1 == Enter(g, "hotSeatFinalAnswer")
  IN  IF ~g1.serverState.defined THEN Throw(g1)
      ELSE IF ~g1.serverState.hotSeatQuestion.defined THEN Throw(g1)
      ELSE LET g2 == [g1 EXCEPT !.serverState.hotSeatQuestion =
                                    revealCorrectChoiceForShowHost(@)]
               wait == At(CORRECT_WAIT_TIMES, g2.serverState.hotSeatQuestionIndex)
           IN  IF g2.serverState.hotSeatPlayer = NoPlayer THEN Throw(g2)
               ELSE IF answerIsCorrect(g2.serverState.hotSeatQuestion,
                         g2.playerMap[g2.serverState.hotSeatPlayer].hotSeatChoice)
               THEN StepTo(g2, Data("showHostRevealHotSeatQuestionVictory",
                                    "HOT_SEAT_VICTORY", wait))
               ELSE StepTo(g2, Data("showHostRevealHotSeatQuestionLoss",
                                    "HOT_SEAT_LOSS", wait))

hotSeatFinalAnswer(g) ==
  LET g1 == Enter(g, "hotSeatFinalAnswer")
  IN  IF ~g1.serverState.defined THEN Throw(g1)
      ELSE IF ~g1.serverState.hotSeatQuestion.defined THEN Throw(g1)
      ELSE LET g2 == [g1 EXCEPT !.serverState.hotSeatQuestion =
                                    revealCorrectChoiceForShowHost(@)]
               wait == At(FINAL_ANSWER_WAIT_TIMES, g2.serverState.hotSeatQuestionIndex)
           IN  IF g2.serverState.hotSeatPlayer = NoPlayer THEN Throw(g2)
               ELSE IF answerIsCorrect(g2.serverState.hotSeatQuestion,
                         g2.playerMap[g2.serverState.hotSeatPlayer].hotSeatChoice)
               THEN StepTo(g2, Data("showHostRevealHotSeatQuestionVictory",
                                    "HOT_SEAT_VICTORY", wait))
               ELSE StepTo(g2, Data("showHostRevealHotSeatQuestionLoss",
                                    "HOT_SEAT_LOSS", wait))

showHostRevealHotSeatQuestionVictory(g) ==
  LET g1 == Enter(g, "showHostRevealHotSeatQuestionVictory")
  IN  IF ~g1.serverState.defined THEN Throw(g1)
      ELSE LET g2 == setShowHostStepDialog(g1, NoDialog)
           IN  IF ~g2.serverState.hotSeatQuestion.defined THEN Throw(g2)
               ELSE armForcedTimer(
                      [g2 EXCEPT !.serverState.hotSeatQuestion = revealCorrectChoiceForAll(@)],
                      "showHostRevealHotSeatQuestionVictory_Continuation")

\* The celebration banner shows MONEY_STRINGS[hotSeatQuestionIndex].
showHostRevealHotSeatQuestionVictory_Continuation(g) ==
  IF ~g.serverState.defined THEN Throw(g)
  ELSE StepTo(resetHotSeatQuestion(setCelebrationBanner(g,
                [defined |-> TRUE, header |-> "",
                 text |-> g.serverState.hotSeatQuestionIndex])),
              Data("showHostCueHotSeatQuestion", "CUE_HOT_SEAT_QUESTION",
                   At(CORRECT_WAIT_TIMES, g.serverState.hotSeatQuestionIndex)))

\* this[socketEvent](socket, data): a name that is no method of GameServer throws.
Invoke(g, socketEvent, ffContent, hsContent) ==
  CASE socketEvent = "showHostShowFastestFingerRules" -> showHostShowFastestFingerRules(g)
    [] socketEvent = "showHostCueFastestFingerQuestion" -> showHostCueFastestFingerQuestion(g)
    [] socketEvent = "showHostShowFastestFingerQuestionText" ->
         showHostShowFastestFingerQuestionText(g, ffContent)
    [] socketEvent = "showHostCueFastestFingerThreeStrikes" ->
         showHostCueFastestFingerThreeStrikes(g)
    [] socketEvent = "showHostRevealFastestFingerQuestionChoices" ->
         showHostRevealFastestFingerQuestionChoices(g)
    [] socketEvent = "fastestFingerTimeUp" -> fastestFingerTimeUp(g)
    [] socketEvent = "showHostCueFastestFingerAnswerRevealAudio" ->
         showHostCueFastestFingerAnswerRevealAudio(g)
    [] socketEvent = "showHostRevealFastestFingerAnswer" -> showHostRevealFastestFingerAnswer(g)
    [] socketEvent = "showHostRevealFastestFingerResults" ->
         showHostRevealFastestFingerResults(g)
    [] socketEvent = "showHostAcceptHotSeatPlayer" -> showHostAcceptHotSeatPlayer(g)
    [] socketEvent = "showHostCueHotSeatRules" -> showHostCueHotSeatRules(g)
    [] socketEvent = "showHostCueHotSeatQuestion" -> showHostCueHotSeatQuestion(g)
    [] socketEvent = "showHostShowHotSeatQuestionText" ->
         showHostShowHotSeatQuestionText(g, hsContent)
    [] socketEvent = "showHostRevealHotSeatChoice" -> showHostRevealHotSeatChoice(g)
    [] socketEvent = "hotSeatFinalAnswer" -> hotSeatFinalAnswer(g)
    [] socketEvent = "showHostRevealHotSeatQuestionVictory" ->
         showHostRevealHotSeatQuestionVictory(g)
    [] socketEvent = "showHostRevealHotSeatQuestionVictory_Continuation" ->
         showHostRevealHotSeatQuestionVictory_Continuation(g)
    [] OTHER -> Throw(g)

----------------------------------------------------------------------------
(* Inputs *)

Content(orderedChoices, shuffledChoices) ==
  [ orderedChoices |-> orderedChoices, shuffledChoices |-> shuffledChoices ]

\* Questions of the fastest finger bank and of the hot seat bank.
FastestFingerBank == { Content(<<C, A, B, D>>, <<A, B, C, D>>) }
HotSeatBank == { Content(<<A, B, C, D>>, <<A, B, C, D>>),
                 Content(<<A, B, C, D>>, <<B, A, D, C>>) }

\* The order in which a contestant ranks the four choices.
FastestFingerOrder(contestant) ==
  CASE contestant = 1 -> <<A, B, C, D>>
    [] contestant = 2 -> <<B, A, C, D>>
    [] OTHER -> <<D, C, B, A>>

\* What a contestant's client may send next: the next slot of its order, its first slot
\* once more, or a slot that is none.
FastestFingerInputs(contestant) ==
  LET made == Len(playerMap[contestant].fastestFingerChoices)
      order == FastestFingerOrder(contestant)
  IN  {order[1], InvalidChoice} \cup (IF made < MAX_CHOICES THEN {order[made + 1]} ELSE {})

HotSeatInputs == {A, InvalidChoice}

----------------------------------------------------------------------------
(* The state machine *)

Init ==
  /\ serverState = NoState
  /\ playerMap = [p \in Contestants |-> NewPlayer]
  /\ currentForcedTimer = 0
  /\ currentSocketEvent = NoEvent
  /\ timeouts = NoTimeouts
  /\ listeners = [socket \in Sockets |-> SocketEventSet]
  /\ crashed = FALSE
  /\ gamesStarted = 0
  /\ timeUpCount = 0
  /\ lateCallback = FALSE
  /\ unsolicited = 0
  /\ ret = [fn |-> "none"]

\* The handler's result becomes the next state; a step that needs more than the model's
\* bounds allow is not taken.
Apply(g) ==
  /\ ~g.overflow
  /\ g.serverState.defined => g.serverState.hotSeatQuestionIndex <= MaxIndex
  /\ serverState' = g.serverState
  /\ playerMap' = g.playerMap
  /\ currentForcedTimer' = g.currentForcedTimer
  /\ currentSocketEvent' = g.currentSocketEvent
  /\ timeouts' = g.timeouts
  /\ crashed' = g.crashed
  /\ timeUpCount' = g.timeUpCount

\* A client sends socketEvent: a game is running and socket.on(socketEvent, ...) is
\* registered on its socket.
CanSend(socket, socketEvent) ==
  /\ ~crashed
  /\ serverState.defined
  /\ socketEvent \in listeners[socket]
  /\ socket = HostSocket => serverState.showHost

\* The socket events the live StepDialogs offer to a client as actions.
Offered ==
  LET of(dialog) == IF dialog.defined
                    THEN {dialog.actions[i].socketEvent : i \in 1..Len(dialog.actions)}
                    ELSE {}
  IN  of(serverState.showHostStepDialog) \cup of(serverState.hotSeatStepDialog)

\* The question whose choices the clients show and let the players pick from.
Answerable(question) == question.defined /\ question.startTime

\* A message is accepted whether or not a client was offered to send it. The ones that
\* were not (a delivery repeated, a choice sent outside its question) are counted.
Count(solicited) ==
  IF solicited THEN unsolicited' = unsolicited
  ELSE unsolicited < MaxUnsolicited /\ unsolicited' = unsolicited + 1

\* A message of a phase whose handler takes no input: one a StepDialog offers, or the
\* message of the current phase delivered once more.
Receive(socketEvent) ==
  /\ \E socket \in Sockets : CanSend(socket, socketEvent)
  /\ socketEvent \in Offered \cup {currentSocketEvent}
  /\ Count(socketEvent \in Offered)
  /\ \E ff \in FastestFingerBank, hs \in HotSeatBank : Apply(Invoke(G, socketEvent, ff, hs))
  /\ UNCHANGED <<listeners, gamesStarted, lateCallback, ret>>

activateListenersForSocket ==
  /\ ~crashed
  /\ \E socket \in Sockets :
       /\ listeners[socket] = {}
       /\ listeners' = [listeners EXCEPT ![socket] = @ \cup SocketEventSet]
  /\ UNCHANGED <<serverState, playerMap, currentForcedTimer, currentSocketEvent, timeouts,
                 crashed, gamesStarted, timeUpCount, lateCallback, unsolicited, ret>>

deactivateListenersForSocket ==
  /\ ~crashed
  /\ \E socket \in Sockets :
       /\ listeners[socket] # {}
       /\ listeners' = [listeners EXCEPT ![socket] = @ \ SocketEventSet]
  /\ UNCHANGED <<serverState, playerMap, currentForcedTimer, currentSocketEvent, timeouts,
                 crashed, gamesStarted, timeUpCount, lateCallback, unsolicited, ret>>

startGame ==
  /\ ~crashed
  /\ ~serverState.defined
  /\ gamesStarted < MaxGames
  /\ gamesStarted' = gamesStarted + 1
  /\ \E showHost \in BOOLEAN, hotSeatPlayer \in {NoPlayer} \cup Contestants :
       Apply(showHostShowFastestFingerRules(startNewRound(
         [G EXCEPT !.serverState = [ServerState(hotSeatPlayer) EXCEPT !.showHost = showHost]])))
  /\ UNCHANGED <<listeners, lateCallback, unsolicited, ret>>

endGame ==
  /\ ~crashed
  /\ serverState.defined
  /\ Apply([clearTimeout(clearTimers(G), currentForcedTimer) EXCEPT
              !.serverState = NoState,
              !.playerMap = [p \in Contestants |-> NewPlayer]])
  /\ UNCHANGED <<listeners, gamesStarted, lateCallback, unsolicited, ret>>

Msg_showHostShowFastestFingerRules == /\ Receive("showHostShowFastestFingerRules")
Msg_showHostCueFastestFingerQuestion == /\ Receive("showHostCueFastestFingerQuestion")
Msg_showHostShowFastestFingerQuestionText == /\ Receive("showHostShowFastestFingerQuestionText")
Msg_showHostCueFastestFingerThreeStrikes == /\ Receive("showHostCueFastestFingerThreeStrikes")
Msg_showHostRevealFastestFingerQuestionChoices ==
  /\ Receive("showHostRevealFastestFingerQuestionChoices")
Msg_fastestFingerTimeUp == /\ Receive("fastestFingerTimeUp")
Msg_showHostCueFastestFingerAnswerRevealAudio ==
  /\ Receive("showHostCueFastestFingerAnswerRevealAudio")
Msg_showHostRevealFastestFingerAnswer == /\ Receive("showHostRevealFastestFingerAnswer")
Msg_showHostRevealFastestFingerResults == /\ Receive("showHostRevealFastestFingerResults")
Msg_showHostAcceptHotSeatPlayer == /\ Receive("showHostAcceptHotSeatPlayer")
Msg_showHostCueHotSeatRules == /\ Receive("showHostCueHotSeatRules")
Msg_showHostCueHotSeatQuestion == /\ Receive("showHostCueHotSeatQuestion")
Msg_showHostShowHotSeatQuestionText == /\ Receive("showHostShowHotSeatQuestionText")
Msg_showHostRevealHotSeatChoice == /\ Receive("showHostRevealHotSeatChoice")
Msg_hotSeatFinalAnswer == /\ Receive("hotSeatFinalAnswer")
Msg_showHostRevealHotSeatQuestionVictory == /\ Receive("showHostRevealHotSeatQuestionVictory")

Msg_contestantFastestFingerChoose ==
  /\ \E socket \in Contestants :
       /\ CanSend(socket, "contestantFastestFingerChoose")
       /\ Count(Answerable(serverState.fastestFingerQuestion))
       /\ \E choice \in FastestFingerInputs(socket) :
            Apply(contestantFastestFingerChoose(G, socket, choice))
  /\ UNCHANGED <<listeners, gamesStarted, lateCallback, ret>>

Msg_contestantChoose ==
  /\ \E socket \in Contestants :
       /\ CanSend(socket, "contestantChoose")
       /\ Count(Answerable(serverState.hotSeatQuestion))
       /\ \E choice \in HotSeatInputs : Apply(contestantChoose(G, socket, choice))
  /\ UNCHANGED <<listeners, gamesStarted, lateCallback, ret>>

Msg_hotSeatChoose ==
  /\ \E socket \in Sockets : CanSend(socket, "hotSeatChoose")
  /\ Count(Answerable(serverState.hotSeatQuestion))
  /\ \E choice \in HotSeatInputs : Apply(hotSeatChoose(G, choice))
  /\ UNCHANGED <<listeners, gamesStarted, lateCallback, ret>>

\* A message of SOCKET_EVENTS for which GameServer has no method.
Msg_withoutHandler ==
  /\ \E socketEvent \in SocketEventSet \ GameServerMethods : Receive(socketEvent)

\* The timeout of the show host's StepDialog expires and runs its timeoutFunc.
StepDialogTimeout ==
  /\ ~crashed
  /\ serverState.defined
  /\ serverState.showHostTimeout
  /\ \E ff \in FastestFingerBank, hs \in HotSeatBank :
       Apply(Invoke([G EXCEPT !.serverState.showHostTimeout = FALSE],
                    serverState.showHostStepDialog.timeoutFunc, ff, hs))
  /\ UNCHANGED <<listeners, gamesStarted, lateCallback, unsolicited, ret>>

\* A forced timer expires and runs its callback.
ForcedTimeout ==
  /\ ~crashed
  /\ \E h \in 1..MaxTimers :
       /\ timeouts[h] # NoEvent
       /\ \E ff \in FastestFingerBank, hs \in HotSeatBank :
            Apply(Invoke([G EXCEPT !.timeouts[h] = NoEvent], timeouts[h], ff, hs))
  /\ lateCallback' = (lateCallback \/ ~serverState.defined)
  /\ UNCHANGED <<listeners, gamesStarted, unsolicited, ret>>

Next ==
  \/ startGame
  \/ endGame
  \/ Msg_showHostShowFastestFingerRules
  \/ Msg_showHostCueFastestFingerQuestion
  \/ Msg_showHostShowFastestFingerQuestionText
  \/ Msg_showHostCueFastestFingerThreeStrikes
  \/ Msg_showHostRevealFastestFingerQuestionChoices
  \/ Msg_contestantFastestFingerChoose
  \/ Msg_fastestFingerTimeUp
  \/ Msg_showHostCueFastestFingerAnswerRevealAudio
  \/ Msg_showHostRevealFastestFingerAnswer
  \/ Msg_showHostRevealFastestFingerResults
  \/ Msg_showHostAcceptHotSeatPlayer
  \/ Msg_showHostCueHotSeatRules
  \/ Msg_showHostCueHotSeatQuestion
  \/ Msg_showHostShowHotSeatQuestionText
  \/ Msg_showHostRevealHotSeatChoice
  \/ Msg_contestantChoose
  \/ Msg_hotSeatChoose
  \/ Msg_hotSeatFinalAnswer
  \/ Msg_showHostRevealHotSeatQuestionVictory
  \/ Msg_withoutHandler
  \/ StepDialogTimeout
  \/ ForcedTimeout

Spec == Init /\ [][Next]_vars

----------------------------------------------------------------------------
(* Registration of the listeners: sockets start without listeners, and a socket with
   listeners may emit any event it has a listener for. *)

InitListeners ==
  /\ serverState = NoState
  /\ playerMap = [p \in Contestants |-> NewPlayer]
  /\ currentForcedTimer = 0
  /\ currentSocketEvent = NoEvent
  /\ timeouts = NoTimeouts
  /\ listeners = [socket \in Sockets |-> {}]
  /\ crashed = FALSE
  /\ gamesStarted = 0
  /\ timeUpCount = 0
  /\ lateCallback = FALSE
  /\ unsolicited = 0
  /\ ret = [fn |-> "none"]

\* socket.on(socketEvent, (data) => { this[socketEvent](socket, data) })
Emit ==
  /\ Count(FALSE)
  /\ \E socket \in Sockets, socketEvent \in SocketEventSet :
       /\ CanSend(socket, socketEvent)
       /\ \/ /\ socketEvent \notin {"contestantFastestFingerChoose", "contestantChoose",
                                    "hotSeatChoose"}
             /\ \E ff \in FastestFingerBank, hs \in HotSeatBank :
                  Apply(Invoke(G, socketEvent, ff, hs))
          \/ /\ socketEvent = "contestantFastestFingerChoose"
             /\ socket \in Contestants
             /\ \E choice \in FastestFingerInputs(socket) :
                  Apply(contestantFastestFingerChoose(G, socket, choice))
          \/ /\ socketEvent = "contestantChoose"
             /\ socket \in Contestants
             /\ \E choice \in HotSeatInputs : Apply(contestantChoose(G, socket, choice))
          \/ /\ socketEvent = "hotSeatChoose"
             /\ \E choice \in HotSeatInputs : Apply(hotSeatChoose(G, choice))
  /\ UNCHANGED <<listeners, gamesStarted, lateCallback, ret>>

NextListeners ==
  \/ activateListenersForSocket
  \/ deactivateListenersForSocket
  \/ startGame
  \/ Emit

SpecListeners == InitListeners /\ [][NextListeners]_vars

----------------------------------------------------------------------------
(* The functions of HotSeatQuestion.js and the StepDialog helper, applied to inputs *)

GameVars == <<serverState, playerMap, currentForcedTimer, currentSocketEvent, timeouts,
              listeners, crashed, gamesStarted, timeUpCount, lateCallback, unsolicited>>

\* The hot seat question indexes: one per payout.
QuestionIndexes == 0..(Len(FINAL_ANSWER_WAIT_TIMES) - 1)

Call_answerIsCorrect ==
  /\ ret.fn = "none"
  /\ \E ordered \in Permutations4, shuffled \in Permutations4 :
       LET q == HotSeatQuestion(ordered, shuffled, 0)
       IN  ret' = [ fn |-> "answerIsCorrect", q |-> q,
                    results |-> [c \in VALID_CHOICES |-> answerIsCorrect(q, c)],
                    correctChoice |-> getCorrectChoice(q) ]
  /\ UNCHANGED GameVars

Call_getSafeHavenIndex ==
  /\ ret.fn = "none"
  /\ \E failedIndex \in QuestionIndexes :
       ret' = [ fn |-> "getSafeHavenIndex", failedIndex |-> failedIndex,
                result |-> getSafeHavenIndex(failedIndex) ]
  /\ UNCHANGED GameVars

Call_toCompressed ==
  /\ ret.fn = "none"
  /\ \E content \in HotSeatBank, madeChoice \in VALID_CHOICES \cup {Undefined},
        showCorrectChoice \in BOOLEAN :
       LET q == HotSeatQuestion(content.orderedChoices, content.shuffledChoices, 0)
       IN  ret' = [ fn |-> "toCompressed", madeChoice |-> madeChoice,
                    showCorrectChoice |-> showCorrectChoice,
                    compressed |-> toCompressed(q, madeChoice, showCorrectChoice) ]
  /\ UNCHANGED GameVars

\* The waits the handlers pass as aiTimeout.
AiTimeouts == {1500, 2000, 2500, 3000, 4000, 5000, 7000, 8000, 10000}
                \cup {FINAL_ANSWER_WAIT_TIMES[i + 1] : i \in QuestionIndexes}
                \cup {CORRECT_WAIT_TIMES[i + 1] : i \in QuestionIndexes}

Call_getOneChoiceHostStepDialog ==
  /\ ret.fn = "none"
  /\ \E showHost \in BOOLEAN, nextSocketEvent \in SocketEventSet, aiTimeout \in AiTimeouts :
       LET g == [G EXCEPT !.serverState = [ServerState(NoPlayer) EXCEPT !.showHost = showHost]]
           data == Data(nextSocketEvent, "hostButtonMessage", aiTimeout)
       IN  ret' = [ fn |-> "getOneChoiceHostStepDialog", showHost |-> showHost,
                    data |-> data, dialog |-> getOneChoiceHostStepDialog(g, data) ]
  /\ UNCHANGED GameVars

\* A game in its initial state, with or without a show host, as startGame creates it.
NewGame(showHost, hotSeatPlayer) ==
  [G EXCEPT !.serverState = [ServerState(hotSeatPlayer) EXCEPT !.showHost = showHost]]

\* The event the show host's StepDialog advances to: its action's, or its timeout's.
NextEvent(dialog) ==
  IF ~dialog.defined THEN NoEvent
  ELSE IF Len(dialog.actions) > 0 THEN dialog.actions[1].socketEvent
  ELSE dialog.timeoutFunc

\* showHostRevealFastestFingerAnswer, invoked n times in a row.
RECURSIVE RevealFastestFingerAnswers(_, _)
RevealFastestFingerAnswers(g, n) ==
  IF n = 0 THEN g
  ELSE showHostRevealFastestFingerAnswer(RevealFastestFingerAnswers(g, n - 1))

\* showHostRevealHotSeatChoice, invoked n times in a row.
RECURSIVE RevealHotSeatChoices(_, _)
RevealHotSeatChoices(g, n) ==
  IF n = 0 THEN g
  ELSE showHostRevealHotSeatChoice(RevealHotSeatChoices(g, n - 1))

Call_showHostRevealFastestFingerAnswer ==
  /\ ret.fn = "none"
  /\ \E showHost \in BOOLEAN, content \in FastestFingerBank, n \in 1..MaxInvocations :
       LET fresh == showHostShowFastestFingerQuestionText(NewGame(showHost, NoPlayer), content)
           g == RevealFastestFingerAnswers(fresh, n)
       IN  ret' = [ fn |-> "showHostRevealFastestFingerAnswer", showHost |-> showHost,
                    invocations |-> n, crashed |-> g.crashed,
                    currentSocketEvent |-> g.currentSocketEvent,
                    fresh |-> fresh.serverState.fastestFingerQuestion,
                    question |-> g.serverState.fastestFingerQuestion,
                    dialog |-> g.serverState.showHostStepDialog ]
  /\ UNCHANGED GameVars

Call_showHostRevealHotSeatChoice ==
  /\ ret.fn = "none"
  /\ \E showHost \in BOOLEAN, content \in HotSeatBank, hotSeatPlayer \in Contestants,
        n \in 1..MaxInvocations :
       LET fresh == showHostShowHotSeatQuestionText(
                      showHostCueHotSeatQuestion(NewGame(showHost, hotSeatPlayer)), content)
           g == RevealHotSeatChoices(fresh, n)
       IN  ret' = [ fn |-> "showHostRevealHotSeatChoice", showHost |-> showHost,
                    invocations |-> n, crashed |-> g.crashed,
                    currentSocketEvent |-> g.currentSocketEvent,
                    fresh |-> fresh.serverState.hotSeatQuestion,
                    question |-> g.serverState.hotSeatQuestion,
                    dialog |-> g.serverState.showHostStepDialog,
                    hotSeatStepDialog |-> g.serverState.hotSeatStepDialog,
                    showHostTimeout |-> g.serverState.showHostTimeout,
                    timeouts |-> g.timeouts ]
  /\ UNCHANGED GameVars


\* Shuffles of one hot seat question, next to the questions of the bank.
ShuffledBank == HotSeatBank \cup {Content(<<C, A, B, D>>, shuffled) : shuffled \in Permutations4}

\* hotSeatFinalAnswer in a game at hot seat question questionIndex, all choices shown and
\* the hot seat player's choice locked or not made.
Call_hotSeatFinalAnswer ==
  /\ ret.fn = "none"
  /\ \E showHost \in BOOLEAN, content \in ShuffledBank, questionIndex \in QuestionIndexes,
        hotSeatPlayer \in Contestants, choice \in VALID_CHOICES \cup {Undefined} :
       LET q == markStartTime(revealAllChoices(
                  HotSeatQuestion(content.orderedChoices, content.shuffledChoices,
                                  questionIndex)))
           before == [NewGame(showHost, hotSeatPlayer) EXCEPT
                        !.serverState.hotSeatQuestionIndex = questionIndex,
                        !.serverState.hotSeatQuestion = q,
                        !.playerMap[hotSeatPlayer].hotSeatChoice = choice]
           g == hotSeatFinalAnswer(before)
       IN  ret' = [ fn |-> "hotSeatFinalAnswer", showHost |-> showHost,
                    questionIndex |-> questionIndex, choice |-> choice,
                    crashed |-> g.crashed,
                    currentSocketEvent |-> g.currentSocketEvent,
                    question |-> g.serverState.hotSeatQuestion,
                    dialog |-> g.serverState.showHostStepDialog ]
  /\ UNCHANGED GameVars

NextFunctions ==
  \/ Call_answerIsCorrect
  \/ Call_getSafeHavenIndex
  \/ Call_toCompressed
  \/ Call_getOneChoiceHostStepDialog
  \/ Call_showHostRevealFastestFingerAnswer
  \/ Call_showHostRevealHotSeatChoice
  \/ Call_hotSeatFinalAnswer

SpecFunctions == Init /\ [][NextFunctions]_vars

----------------------------------------------------------------------------
(* A game played through: the clients send what the live StepDialogs offer, the hot seat
   player answers the question on display, the timeouts run, and a socket may send
   fastestFingerTimeUp out of its phase. The contestants leave the fastest finger
   question to its timer. *)

\* The handler's result becomes the next state, up to MaxQuestionIndex questions.
ApplyPlayed(g) ==
  /\ ~g.overflow
  /\ g.serverState.defined => g.serverState.hotSeatQuestionIndex <= MaxQuestionIndex
  /\ serverState' = g.serverState
  /\ playerMap' = g.playerMap
  /\ currentForcedTimer' = g.currentForcedTimer
  /\ currentSocketEvent' = g.currentSocketEvent
  /\ timeouts' = g.timeouts
  /\ crashed' = g.crashed
  /\ timeUpCount' = g.timeUpCount

\* A client presses a button of a live StepDialog.
OfferedAction ==
  /\ ~crashed
  /\ serverState.defined
  /\ \E socketEvent \in Offered :
       /\ \E socket \in Sockets : CanSend(socket, socketEvent)
       /\ \E ff \in FastestFingerBank, hs \in HotSeatBank :
            ApplyPlayed(Invoke(G, socketEvent, ff, hs))
  /\ UNCHANGED <<listeners, gamesStarted, lateCallback, unsolicited, ret>>

\* The hot seat player picks a choice of the question on display.
OfferedHotSeatChoose ==
  /\ \E socket \in Sockets : CanSend(socket, "hotSeatChoose")
  /\ Answerable(serverState.hotSeatQuestion)
  /\ \E choice \in HotSeatInputs : ApplyPlayed(hotSeatChoose(G, choice))
  /\ UNCHANGED <<listeners, gamesStarted, lateCallback, unsolicited, ret>>

\* A socket sends fastestFingerTimeUp, which no StepDialog offers.
StrayFastestFingerTimeUp ==
  /\ \E socket \in Sockets : CanSend(socket, "fastestFingerTimeUp")
  /\ Count(FALSE)
  /\ ApplyPlayed(fastestFingerTimeUp(G))
  /\ UNCHANGED <<listeners, gamesStarted, lateCallback, ret>>

PlayedStepDialogTimeout ==
  /\ ~crashed
  /\ serverState.defined
  /\ serverState.showHostTimeout
  /\ \E ff \in FastestFingerBank, hs \in HotSeatBank :
       ApplyPlayed(Invoke([G EXCEPT !.serverState.showHostTimeout = FALSE],
                          serverState.showHostStepDialog.timeoutFunc, ff, hs))
  /\ UNCHANGED <<listeners, gamesStarted, lateCallback, unsolicited, ret>>

PlayedForcedTimeout ==
  /\ ~crashed
  /\ \E h \in 1..MaxTimers :
       /\ timeouts[h] # NoEvent
       /\ \E ff \in FastestFingerBank, hs \in HotSeatBank :
            ApplyPlayed(Invoke([G EXCEPT !.timeouts[h] = NoEvent], timeouts[h], ff, hs))
  /\ lateCallback' = (lateCallback \/ ~serverState.defined)
  /\ UNCHANGED <<listeners, gamesStarted, unsolicited, ret>>

NextPlayed ==
  \/ startGame
  \/ endGame
  \/ OfferedAction
  \/ OfferedHotSeatChoose
  \/ StrayFastestFingerTimeUp
  \/ PlayedStepDialogTimeout
  \/ PlayedForcedTimeout

SpecPlayed == Init /\ [][NextPlayed]_vars

\* The last index of the per-index tables and of the question ladder.
LastQuestionIndex == Len(FINAL_ANSWER_WAIT_TIMES) - 1

----------------------------------------------------------------------------
(* Properties *)


\* The handlers of the phases: each starts with this.currentSocketEvent = <its name>.
\* The two handlers of the contestants' submissions and the continuation of the victory
\* phase belong to the phase that is running.
PhaseHandlers == GameServerMethods \ {"contestantFastestFingerChoose", "contestantChoose"}

\* A step in which the handler of socketEvent runs: called by startGame, on a message,
\* by the timeout of a StepDialog, by a forced timer, or by the last contestant's
\* fastest finger submission.
PhaseHandlerRuns(socketEvent) ==
  \/ socketEvent = "showHostShowFastestFingerRules" /\ startGame
  \/ socketEvent # "hotSeatChoose" /\ Receive(socketEvent)
  \/ socketEvent = "hotSeatChoose" /\ Msg_hotSeatChoose
  \/ /\ socketEvent = "fastestFingerTimeUp"
     /\ Msg_contestantFastestFingerChoose
     /\ \A p \in Contestants : Len(playerMap'[p].fastestFingerChoices) = MAX_CHOICES
  \/ /\ serverState.defined
     /\ serverState.showHostTimeout
     /\ serverState.showHostStepDialog.timeoutFunc = socketEvent
     /\ StepDialogTimeout
  \/ /\ ~crashed
     /\ \E h \in 1..MaxTimers :
          /\ timeouts[h] = socketEvent
          /\ \E ff \in FastestFingerBank, hs \in HotSeatBank :
               Apply(Invoke([G EXCEPT !.timeouts[h] = NoEvent], timeouts[h], ff, hs))
     /\ lateCallback' = (lateCallback \/ ~serverState.defined)
     /\ UNCHANGED <<listeners, gamesStarted, unsolicited, ret>>

PendingForcedTimers == {h \in 1..MaxTimers : timeouts[h] # NoEvent}

\* C1: in one fastest finger round (from the reveal of the choices on), whatever the order
\* of the contestants' contestantFastestFingerChoose messages and of the 10-second timer,
\* fastestFingerTimeUp is entered at most once.
C1_TimeUpOnce == unsolicited = 0 => timeUpCount <= 1

\* C2: a contestantFastestFingerChoose message received after fastestFingerTimeUp has
\* fired changes neither currentSocketEvent, nor the show host's StepDialog, nor the
\* forced timer.
C2_LateChooseIgnored ==
  [][(Msg_contestantFastestFingerChoose /\ timeUpCount >= 1)
       => /\ currentSocketEvent' = currentSocketEvent
          /\ serverState'.showHostStepDialog = serverState.showHostStepDialog
          /\ serverState'.showHostTimeout = serverState.showHostTimeout
          /\ currentForcedTimer' = currentForcedTimer
          /\ timeouts' = timeouts]_vars

\* C3: at most one forced timer is pending at any time.
C3_OneForcedTimer == Cardinality(PendingForcedTimers) <= 1

\* C4: no timer callback runs while serverState is undefined, that is after endGame.
C4_NoCallbackAfterEndGame == ~lateCallback

\* C5: with a show host present _getOneChoiceHostStepDialog returns a dialog with exactly
\* one action, the given next event, and no timeout; without one, a dialog with no action
\* and a timeout that invokes the given next event after aiTimeout ms.
C5_OneChoiceDialog ==
  ret.fn = "getOneChoiceHostStepDialog" =>
    LET dialog == ret.dialog
    IN  /\ dialog.defined
        /\ ret.showHost =>
             /\ Len(dialog.actions) = 1
             /\ dialog.actions[1].socketEvent = ret.data.nextSocketEvent
             /\ dialog.timeoutFunc = NoEvent
             /\ dialog.timeoutMs = Undefined
        /\ ~ret.showHost =>
             /\ Len(dialog.actions) = 0
             /\ dialog.timeoutFunc = ret.data.nextSocketEvent
             /\ dialog.timeoutMs = ret.data.aiTimeout
             /\ dialog.timeoutMs # Undefined

C5_Witness ==
  /\ ret.fn = "getOneChoiceHostStepDialog"
  /\ ~ret.showHost
  /\ ret.data.nextSocketEvent = "showHostRevealHotSeatQuestionLoss"
  /\ ret.dialog.actions = <<>>
  /\ ret.dialog.timeoutFunc = "showHostRevealHotSeatQuestionLoss"
  /\ ret.dialog.timeoutMs = 1500

\* The game waits for the hot seat player: for the choice, or for the yes/no confirmation.
WaitsForHotSeatPlayer ==
  \/ /\ Answerable(serverState.hotSeatQuestion)
     /\ ~serverState.showHostStepDialog.defined
     /\ ~serverState.hotSeatStepDialog.defined
  \/ /\ serverState.hotSeatStepDialog.defined
     /\ Len(serverState.hotSeatStepDialog.actions) = 2

\* C6: in a game without a show host (and with a hot seat player), after every phase
\* handler a StepDialog timeout or a forced timer that targets an existing handler is
\* pending, or the game waits for the hot seat player; no phase leaves the game stalled.
C6_NeverStalls ==
  (/\ unsolicited = 0
   /\ serverState.defined
   /\ ~serverState.showHost
   /\ serverState.hotSeatPlayer # NoPlayer) =>
    /\ ~crashed
    /\ \/ /\ serverState.showHostTimeout
          /\ serverState.showHostStepDialog.timeoutFunc \in GameServerMethods
       \/ \E h \in PendingForcedTimers :
            timeouts[h] \in GameServerMethods
                              \cup {"showHostRevealHotSeatQuestionVictory_Continuation"}
       \/ WaitsForHotSeatPlayer

\* C7: every name of SOCKET_EVENTS gets a listener that dispatches to a method of
\* GameServer with that name, and the listeners of a socket are those of all the names of
\* SOCKET_EVENTS or none.
C7_ListenersHaveHandlers ==
  \A socket \in Sockets :
    /\ listeners[socket] \in {{}, SocketEventSet}
    /\ \A socketEvent \in listeners[socket] : socketEvent \in GameServerMethods

\* C8: for every shuffle and every true order, answerIsCorrect is true for exactly one
\* presented slot, the one getCorrectChoice returns, where the first-ranked choice is shown.
C8_ExactlyOneCorrect ==
  ret.fn = "answerIsCorrect" =>
    /\ ret.correctChoice \in VALID_CHOICES
    /\ ret.q.shuffledChoices[ret.correctChoice + 1] = ret.q.orderedChoices[1]
    /\ \A c \in VALID_CHOICES : ret.results[c] <=> (c = ret.correctChoice)

C8_Witness ==
  /\ ret.fn = "answerIsCorrect"
  /\ ret.q.orderedChoices = <<C, A, B, D>>
  /\ ret.q.shuffledChoices = <<B, A, D, C>>
  /\ ret.correctChoice = D
  /\ ret.results[D]
  /\ ~ret.results[A] /\ ~ret.results[B] /\ ~ret.results[C]

\* C9: for failedIndex in 0..14 getSafeHavenIndex is floor((failedIndex+1)/5)*5 - 1: -1
\* for 0..3, 4 for 4..8, 9 for 9..13, 14 for 14; never more than failedIndex.
C9_SafeHaven ==
  ret.fn = "getSafeHavenIndex" =>
    /\ ret.result = ((ret.failedIndex + 1) \div 5) * 5 - 1
    /\ ret.failedIndex \in 0..3 => ret.result = 0 - 1
    /\ ret.failedIndex \in 4..8 => ret.result = 4
    /\ ret.failedIndex \in 9..13 => ret.result = 9
    /\ ret.failedIndex = 14 => ret.result = 14
    /\ ret.result <= ret.failedIndex

C9_Witness == ret.fn = "getSafeHavenIndex" /\ ret.failedIndex = 10 /\ ret.result = 9

\* C10: toCompressed has no correctChoice field when showCorrectChoice is false, and its
\* choiceLocked is true exactly when madeChoice is one of the four slots, slot A included.
C10_Compressed ==
  ret.fn = "toCompressed" =>
    /\ ~ret.showCorrectChoice => "correctChoice" \notin DOMAIN ret.compressed
    /\ ret.compressed.choiceLocked <=> (ret.madeChoice \in VALID_CHOICES)

C10_Witness ==
  /\ ret.fn = "toCompressed"
  /\ ret.madeChoice = A
  /\ ~ret.showCorrectChoice
  /\ ret.compressed.choiceLocked
  /\ DOMAIN ret.compressed = {"revealedChoices", "madeChoices", "choiceLocked"}

\* C11: starting from a fresh fastest finger question, showHostRevealFastestFingerAnswer
\* offers itself as the next event while answers remain unrevealed and offers
\* showHostRevealFastestFingerResults once revealedAllAnswers() is true, which is the
\* case after at most 4 invocations.
C11_FastestFingerRevealLoop ==
  ret.fn = "showHostRevealFastestFingerAnswer" =>
    /\ ~ret.crashed
    /\ ~revealedAllAnswers(ret.fresh)
    /\ ret.currentSocketEvent = "showHostRevealFastestFingerAnswer"
    /\ NextEvent(ret.dialog) = IF revealedAllAnswers(ret.question)
                               THEN "showHostRevealFastestFingerResults"
                               ELSE "showHostRevealFastestFingerAnswer"
    /\ ret.invocations >= MAX_CHOICES => revealedAllAnswers(ret.question)

C11_Witness ==
  /\ ret.fn = "showHostRevealFastestFingerAnswer"
  /\ ret.invocations = MAX_CHOICES
  /\ revealedAllAnswers(ret.question)
  /\ NextEvent(ret.dialog) = "showHostRevealFastestFingerResults"

\* C12: starting from a fresh hot seat question, showHostRevealHotSeatChoice offers itself
\* as the next event while choices remain unrevealed; after at most 4 invocations
\* allChoicesRevealed() is true and it offers itself no more.
C12_HotSeatRevealLoop ==
  ret.fn = "showHostRevealHotSeatChoice" =>
    /\ ~ret.crashed
    /\ ~allChoicesRevealed(ret.fresh)
    /\ ret.currentSocketEvent = "showHostRevealHotSeatChoice"
    /\ ~allChoicesRevealed(ret.question) =>
         NextEvent(ret.dialog) = "showHostRevealHotSeatChoice"
    /\ allChoicesRevealed(ret.question) =>
         NextEvent(ret.dialog) # "showHostRevealHotSeatChoice"
    /\ ret.invocations >= MAX_CHOICES => allChoicesRevealed(ret.question)

C12_Witness ==
  /\ ret.fn = "showHostRevealHotSeatChoice"
  /\ ret.invocations = MAX_CHOICES
  /\ allChoicesRevealed(ret.question)
  /\ ~ret.dialog.defined

\* C13: once showHostRevealHotSeatChoice has revealed all choices, the answer clock is
\* started, the show host's and the hot seat player's StepDialog are both absent and no
\* timer is pending: until hotSeatChoose arrives, no host click and no timer can change
\* the phase. (Stated for the games in which every message was one a StepDialog offered.)
C13_InertAfterReveal ==
  (/\ unsolicited = 0
   /\ currentSocketEvent = "showHostRevealHotSeatChoice"
   /\ ~crashed
   /\ serverState.defined
   /\ serverState.hotSeatQuestion.defined
   /\ allChoicesRevealed(serverState.hotSeatQuestion)) =>
    /\ serverState.hotSeatQuestion.startTime
    /\ ~serverState.showHostStepDialog.defined
    /\ ~serverState.hotSeatStepDialog.defined
    /\ Offered = {}
    /\ ~serverState.showHostTimeout
    /\ ~serverState.hotSeatTimeout
    /\ PendingForcedTimers = {}

\* C14: after hotSeatChoose the yes/no final answer dialog (yes = hotSeatFinalAnswer,
\* no = showHostRevealHotSeatChoice) is installed in exactly one StepDialog slot: the show
\* host's when a human host is present, otherwise the hot seat player's; the other slot
\* holds no dialog. (Stated for the games in which every message was one a StepDialog
\* offered or a choice made while its question is open.)
C14_YesNoInOneSlot ==
  (/\ unsolicited = 0
   /\ currentSocketEvent = "hotSeatChoose"
   /\ ~crashed
   /\ serverState.defined) =>
    LET dialog == getYesNoDialog("hotSeatFinalAnswer", "showHostRevealHotSeatChoice",
                                 "HOT_SEAT_FINAL_ANSWER")
    IN  IF serverState.showHost
        THEN /\ serverState.showHostStepDialog = dialog
             /\ ~serverState.hotSeatStepDialog.defined
        ELSE /\ serverState.hotSeatStepDialog = dialog
             /\ ~serverState.showHostStepDialog.defined

\* C15: hotSeatFinalAnswer sets correctChoiceRevealedForShowHost and installs a next step
\* that targets showHostRevealHotSeatQuestionVictory exactly when the hot seat player's
\* locked choice satisfies answerIsCorrect, and showHostRevealHotSeatQuestionLoss
\* otherwise, also when no choice is locked.
C15_FinalAnswerRoute ==
  ret.fn = "hotSeatFinalAnswer" =>
    /\ ~ret.crashed
    /\ ret.currentSocketEvent = "hotSeatFinalAnswer"
    /\ ret.question.correctChoiceRevealedForShowHost
    /\ NextEvent(ret.dialog) = IF answerIsCorrect(ret.question, ret.choice)
                               THEN "showHostRevealHotSeatQuestionVictory"
                               ELSE "showHostRevealHotSeatQuestionLoss"
    /\ answerIsCorrect(ret.question, ret.choice) <=> ret.choice = getCorrectChoice(ret.question)
    /\ ret.choice = Undefined => NextEvent(ret.dialog) = "showHostRevealHotSeatQuestionLoss"

C15_Witness ==
  /\ ret.fn = "hotSeatFinalAnswer"
  /\ ret.choice # Undefined
  /\ ret.question.shuffledChoices # ret.question.orderedChoices
  /\ NextEvent(ret.dialog) = "showHostRevealHotSeatQuestionVictory"

\* C16: without a show host, at every hot seat question index i in 0..14 the automatic
\* wait hotSeatFinalAnswer installs is FINAL_ANSWER_WAIT_TIMES[i]; a wrong answer at
\* index 4 gives a wait of 1500 ms before the loss phase.
C16_FinalAnswerWait ==
  (ret.fn = "hotSeatFinalAnswer" /\ ~ret.showHost) =>
    /\ ret.dialog.defined
    /\ ret.dialog.actions = <<>>
    /\ ret.dialog.timeoutMs = FINAL_ANSWER_WAIT_TIMES[ret.questionIndex + 1]
    /\ (ret.questionIndex = 4 /\ ~answerIsCorrect(ret.question, ret.choice)) =>
         /\ ret.dialog.timeoutMs = 1500
         /\ ret.dialog.timeoutFunc = "showHostRevealHotSeatQuestionLoss"

C16_Witness ==
  /\ ret.fn = "hotSeatFinalAnswer"
  /\ ~ret.showHost
  /\ ret.questionIndex = 4
  /\ ret.choice # Undefined
  /\ ~answerIsCorrect(ret.question, ret.choice)
  /\ ret.dialog.timeoutMs = 1500

\* The phase messages meant for the show host: the showHost* names of SOCKET_EVENTS.
HostOnlyEvents ==
  SocketEventSet \ {"fastestFingerTimeUp", "contestantFastestFingerChoose",
                    "contestantChoose", "contestantSetConfidence", "hotSeatChoose",
                    "hotSeatFinalAnswer", "hotSeatUseLifeline", "hotSeatConfirmLifeline",
                    "hotSeatPickPhoneAFriend"}

\* A contestant's socket sends a host-only message while a human show host is present.
ContestantSendsHostOnly ==
  /\ serverState.defined
  /\ serverState.showHost
  /\ \E socket \in Contestants, socketEvent \in HostOnlyEvents :
       /\ CanSend(socket, socketEvent)
       /\ Receive(socketEvent)

\* C17: a host-only phase message (a showHost* event) sent by a socket that is not the show
\* host's, while a human show host is present, is rejected: currentSocketEvent, the
\* StepDialogs, the questions' reveal state and the timers stay as they are.
C17_HostOnlyRejected ==
  [][ContestantSendsHostOnly =>
       UNCHANGED <<currentSocketEvent, serverState, currentForcedTimer, timeouts>>]_vars

\* A choice message arrives whose choice is none of the four slots: hotSeatChoose and
\* contestantChoose while the hot seat question is open, contestantFastestFingerChoose
\* while the fastest finger question is and a contestant has yet to finish (a later one
\* is a late submission, whatever its choice).
InvalidChoiceMessage ==
  /\ unsolicited' = unsolicited
  /\ \/ /\ \E socket \in Sockets : CanSend(socket, "hotSeatChoose")
        /\ Answerable(serverState.hotSeatQuestion)
        /\ Apply(hotSeatChoose(G, InvalidChoice))
     \/ \E socket \in Contestants :
          /\ CanSend(socket, "contestantChoose")
          /\ Answerable(serverState.hotSeatQuestion)
          /\ Apply(contestantChoose(G, socket, InvalidChoice))
     \/ \E socket \in Contestants :
          /\ CanSend(socket, "contestantFastestFingerChoose")
          /\ Answerable(serverState.fastestFingerQuestion)
          /\ ~allPlayersDoneWithFastestFinger(G)
          /\ Apply(contestantFastestFingerChoose(G, socket, InvalidChoice))

\* C18: a hotSeatChoose, contestantChoose or contestantFastestFingerChoose message whose
\* choice is none of the slots A..D is rejected without mutating state: no player's stored
\* choice changes, currentSocketEvent is unchanged and no StepDialog is installed.
C18_InvalidChoiceRejected ==
  [][InvalidChoiceMessage =>
       /\ playerMap' = playerMap
       /\ currentSocketEvent' = currentSocketEvent
       /\ serverState'.showHostStepDialog = serverState.showHostStepDialog
       /\ serverState'.hotSeatStepDialog = serverState.hotSeatStepDialog]_vars

\* C19: when showHostAcceptHotSeatPlayer runs after showHostRevealFastestFingerResults has
\* graded every player, serverState.hotSeatPlayer is set and is a player whose
\* fastestFingerScore is the maximum over the graded players.
C19_HotSeatPlayerIsTopScorer ==
  (/\ unsolicited = 0
   /\ currentSocketEvent = "showHostAcceptHotSeatPlayer"
   /\ serverState.defined) =>
    /\ ~crashed
    /\ serverState.hotSeatPlayer \in Contestants
    /\ \A p \in Contestants :
         playerMap[p].fastestFingerScore
           <= playerMap[serverState.hotSeatPlayer].fastestFingerScore

\* C20: in every state reached by triggering only the actions and timers the live
\* StepDialogs offer (and hotSeatChoose), a hot seat question whose
\* correctChoiceRevealedForAll is true has correctChoiceRevealedForShowHost true as well.
C20_RevealedForAllImpliesShowHost ==
  (/\ unsolicited = 0
   /\ serverState.defined
   /\ serverState.hotSeatQuestion.defined
   /\ serverState.hotSeatQuestion.correctChoiceRevealedForAll) =>
    serverState.hotSeatQuestion.correctChoiceRevealedForShowHost

C20_Witness ==
  /\ unsolicited = 0
  /\ serverState.defined
  /\ serverState.hotSeatQuestion.defined
  /\ serverState.hotSeatQuestion.correctChoiceRevealedForAll
  /\ currentSocketEvent = "showHostRevealHotSeatQuestionVictory"

\* C21: whenever a game is in a hot seat question phase (a question is requested or a
\* per-index table is read), hotSeatQuestionIndex is within 0..14, and
\* showHostCueHotSeatQuestion never raises it above 14, however many questions were
\* answered correctly, when only offered actions and timers are triggered. Stated for
\* a game with a show host, where each StepDialog replaces the one before it.
C21_IndexWithinLadder ==
  (/\ unsolicited = 0
   /\ serverState.defined
   /\ serverState.showHost
   /\ currentSocketEvent \in {"showHostCueHotSeatQuestion", "showHostShowHotSeatQuestionText",
                              "showHostRevealHotSeatChoice", "hotSeatChoose",
                              "hotSeatFinalAnswer", "showHostRevealHotSeatQuestionVictory"})
    => serverState.hotSeatQuestionIndex \in 0..LastQuestionIndex

\* C22: once hotSeatFinalAnswer has run, the yes/no confirmation dialog that hotSeatChoose
\* installed is no longer live in either slot: no live StepDialog offers
\* hotSeatFinalAnswer, so it cannot be triggered a second time (only offered actions and
\* timers are triggered).
C22_YesNoSuperseded ==
  (/\ unsolicited = 0
   /\ serverState.defined
   /\ ~crashed
   /\ currentSocketEvent = "hotSeatFinalAnswer")
    => "hotSeatFinalAnswer" \notin Offered

PhaseOrder(socketEvent) ==
  CASE socketEvent = NoEvent -> {"showHostShowFastestFingerRules"}
    [] socketEvent = "showHostShowFastestFingerRules" -> {"showHostCueFastestFingerQuestion"}
    [] socketEvent = "showHostCueFastestFingerQuestion" ->
         {"showHostShowFastestFingerQuestionText"}
    [] socketEvent = "showHostShowFastestFingerQuestionText" ->
         {"showHostCueFastestFingerThreeStrikes"}
    [] socketEvent = "showHostCueFastestFingerThreeStrikes" ->
         {"showHostRevealFastestFingerQuestionChoices"}
    [] socketEvent = "showHostRevealFastestFingerQuestionChoices" -> {"fastestFingerTimeUp"}
    [] socketEvent = "fastestFingerTimeUp" -> {"showHostCueFastestFingerAnswerRevealAudio"}
    [] socketEvent = "showHostCueFastestFingerAnswerRevealAudio" ->
         {"showHostRevealFastestFingerAnswer"}
    [] socketEvent = "showHostRevealFastestFingerAnswer" ->
         {"showHostRevealFastestFingerAnswer", "showHostRevealFastestFingerResults"}
    [] socketEvent = "showHostRevealFastestFingerResults" -> {"showHostAcceptHotSeatPlayer"}
    [] socketEvent = "showHostAcceptHotSeatPlayer" -> {"showHostCueHotSeatRules"}
    [] socketEvent = "showHostCueHotSeatRules" -> {"showHostCueHotSeatQuestion"}
    [] socketEvent = "showHostCueHotSeatQuestion" -> {"showHostShowHotSeatQuestionText"}
    [] socketEvent = "showHostShowHotSeatQuestionText" -> {"showHostRevealHotSeatChoice"}
    [] socketEvent = "showHostRevealHotSeatChoice" ->
         {"showHostRevealHotSeatChoice", "hotSeatChoose"}
    [] socketEvent = "hotSeatChoose" ->
         {"hotSeatChoose", "hotSeatFinalAnswer", "showHostRevealHotSeatChoice"}
    [] socketEvent = "hotSeatFinalAnswer" ->
         {"hotSeatChoose", "showHostRevealHotSeatQuestionVictory",
          "showHostRevealHotSeatQuestionLoss"}
    [] socketEvent = "showHostRevealHotSeatQuestionVictory" ->
         {"hotSeatChoose", "showHostCueHotSeatQuestion"}
    [] OTHER -> {}

\* C24: when only the actions offered by the live StepDialogs, their timeouts, the forced
\* timers and the hot seat player's hotSeatChoose are triggered, every step of a running
\* game leaves the phase as it is or moves it to a phase that follows it in the fixed
\* order; startGame enters the first phase.
C24_PhasesInOrder ==
  [][/\ (~serverState.defined /\ serverState'.defined)
          => currentSocketEvent' = "showHostShowFastestFingerRules"
     /\ (/\ unsolicited' = 0
         /\ serverState.defined
         /\ serverState'.defined
         /\ currentSocketEvent' # currentSocketEvent)
          => currentSocketEvent' \in PhaseOrder(currentSocketEvent)]_vars

\* The hot seat handlers that read serverState.hotSeatQuestion without a check.
QuestionReaders ==
  {"showHostRevealHotSeatChoice", "hotSeatFinalAnswer", "showHostRevealHotSeatQuestionVictory"}

\* C25: when only offered actions, timers and the hot seat player's hotSeatChoose are
\* triggered, a handler that reads the active hot seat question runs only while
\* serverState.hotSeatQuestion is set, also after the victory continuation has reset it.
C25_QuestionSetWhenRead ==
  [][\A socketEvent \in QuestionReaders :
       (/\ unsolicited' = 0
        /\ serverState.defined
        /\ PhaseHandlerRuns(socketEvent))
         => serverState.hotSeatQuestion.defined]_vars

\* C26: a pending showHostRevealHotSeatQuestionVictory_Continuation timer stays pending
\* until it fires or endGame discards the game: no message cancels it.
C26_ContinuationNotCancelled ==
  [][\A h \in 1..MaxTimers :
       (/\ timeouts[h] = "showHostRevealHotSeatQuestionVictory_Continuation"
        /\ serverState.defined
        /\ serverState'.defined
        /\ timeouts'[h] # "showHostRevealHotSeatQuestionVictory_Continuation")
         => PlayedForcedTimeout]_vars

====
